---- MODULE Spec2Model ----
(***************************************************************************)
(* A model of the Conan recipe conanfile.py of libcosimc: the option       *)
(* processing (config_options, configure), the build and package methods   *)
(* with the external CMake steps they invoke, package_info, and the        *)
(* process environment around the test step.                               *)
(*                                                                         *)
(* Text values whose contents matter (the value of the environment toggle, *)
(* requirement references) are sequences of one-character strings, so that *)
(* lower-casing and parsing are computed rather than assumed.              *)
(***************************************************************************)
EXTENDS Integers, Sequences, FiniteSets, TLC

VARIABLES
    os,            \* self.settings.os
    build_type,    \* self.settings.build_type
    options,       \* self.options: option name -> value, for the options present
    depOptions,    \* self.options[pattern]: pattern -> [shared -> value]
    requirements,  \* self.requires
    environ,       \* os.environ: variable name -> value
    old_env,       \* the copy of os.environ kept by env.vars(self).apply()
    runEnv,        \* what VirtualRunEnv(self).environment() yields
    cpp_info,      \* self.cpp_info
    pc,            \* the statement of the recipe that runs next
    running,       \* the external step being executed, or "none"
    log,           \* history: the external steps invoked, in order
    failedStep,    \* history: the step whose failure ended the run, or "none"
    branched,      \* history: the conditions the recipe has evaluated
    environ0,      \* history: os.environ when the recipe started
    shared0        \* history: the value of the shared option when the recipe started

vars == <<os, build_type, options, depOptions, requirements, environ, old_env,
          runEnv, cpp_info, pc, running, log, failedStep, branched, environ0,
          shared0>>

-----------------------------------------------------------------------------
(* Text helpers *)

\* str.lower() on one character, over the letters the model's values use.
LowerChar(c) ==
    CASE c = "T" -> "t" [] c = "R" -> "r" [] c = "U" -> "u" [] c = "E" -> "e"
      [] c = "F" -> "f" [] c = "A" -> "a" [] c = "L" -> "l" [] c = "S" -> "s"
      [] c = "Y" -> "y" [] c = "O" -> "o" [] c = "N" -> "n"
      [] OTHER -> c

\* str.lower()
Lower(s) == [i \in 1..Len(s) |-> LowerChar(s[i])]

\* The position of the first c in s, or 0.
IndexOf(s, c) ==
    IF \E i \in 1..Len(s) : s[i] = c
    THEN CHOOSE i \in 1..Len(s) : s[i] = c /\ \A j \in 1..(i - 1) : s[j] # c
    ELSE 0

\* name/version@user/channel: the name of a requirement reference.
RefName(r) == SubSeq(r, 1, IndexOf(r, "/") - 1)

\* name/version@user/channel: the version of a requirement reference.
RefVersion(r) ==
    LET from == IndexOf(r, "/") + 1
        to == IF IndexOf(r, "@") = 0 THEN Len(r) ELSE IndexOf(r, "@") - 1
    IN SubSeq(r, from, to)

\* A version written [..] is a range of versions.
IsVersionRange(v) == Len(v) > 0 /\ v[1] = "["

-----------------------------------------------------------------------------
(* Names and values of the recipe *)

TOGGLE == "LIBCOSIMC_RUN_TESTS_ON_CONAN_BUILD"
CTEST == "CTEST_OUTPUT_ON_FAILURE"
RUNPATH == "LD_LIBRARY_PATH"

ON == <<"O", "N">>
OFF == <<"O", "F", "F">>

\* os.getenv's default for the toggle, "False".
ToggleDefault == <<"F", "a", "l", "s", "e">>

\* ("true", "1")
EnablingValues == {<<"t", "r", "u", "e">>, <<"1">>}

\* "fPIC": [True, False], "shared": [True, False]
OptionValues == [shared |-> BOOLEAN, fPIC |-> BOOLEAN]

default_options == [shared |-> TRUE, fPIC |-> TRUE]

tool_requires ==
    << <<"c", "m", "a", "k", "e", "/", "[", ">", "=", "3", ".", "1", "5", "]">>,
       <<"d", "o", "x", "y", "g", "e", "n", "/", "[", ">", "=", "1", ".", "8", "]">> >>

\* Plausible slip: the requirement written as a range, like the tool requirements.
requires_range ==
    << <<"l", "i", "b", "c", "o", "s", "i", "m", "/", "[", ">", "=", "0", ".",
         "1", "0", ".", "3", "]", "@", "o", "s", "p", "/", "s", "t", "a", "b",
         "l", "e">> >>

\* "libcosim/0.10.3@osp/stable"
requires ==
    << <<"l", "i", "b", "c", "o", "s", "i", "m", "/", "0", ".", "1", "0", ".",
         "3", "@", "o", "s", "p", "/", "s", "t", "a", "b", "l", "e">> >>

-----------------------------------------------------------------------------
(* Inputs *)

OsValues == {"Windows", "Linux", "Macos"}
BuildTypes == {"Debug", "Release"}

\* Values the toggle may hold when it is set.
ToggleValues ==
    { <<>>,
      <<"y", "e", "s">>, <<"o", "n">>, <<"O", "N">>, <<"0">>, <<"1">>, <<"1", "1">>,
      <<"f", "a", "l", "s", "e">>, <<"F", "a", "l", "s", "e">>,
      <<"t", "r", "u", "e">>, <<"T", "r", "u", "e">>, <<"T", "R", "U", "E">>,
      <<"t", "R", "u", "E">>, <<"t", "r", "u", "e", " ">>, <<"t", "r", "u">> }

\* The empty mapping.
Empty == [n \in {} |-> <<>>]

\* The process environments the recipe may start in.
Environments ==
    { f \in UNION { [D -> ToggleValues \cup {ON, OFF}] : D \in SUBSET {TOGGLE, CTEST} } :
        /\ TOGGLE \in DOMAIN f => f[TOGGLE] \in ToggleValues
        /\ CTEST \in DOMAIN f => f[CTEST] \in {ON, OFF} }

\* The run environments the dependencies may contribute.
RunEnvs == { Empty, [n \in {RUNPATH} |-> <<"d", "e", "p", "s">>] }

-----------------------------------------------------------------------------
(* Mappings *)

\* dict.update / Environment.define: m with the entries of u set.
Update(m, u) ==
    [n \in DOMAIN m \cup DOMAIN u |-> IF n \in DOMAIN u THEN u[n] ELSE m[n]]

\* env.define(name, value)
Define(env, name, value) == Update(env, [n \in {name} |-> value])

\* Removing an option that may or may not be present.
Without(opts, name) == [n \in DOMAIN opts \ {name} |-> opts[n]]

\* del self.options.<name>: raises when the option is not there.
DelOption(opts, name) ==
    IF name \in DOMAIN opts
    THEN [raised |-> FALSE, opts |-> Without(opts, name)]
    ELSE [raised |-> TRUE, opts |-> opts]

\* Plausible slip: the option removed with del, which raises when it is gone.
RmSafeAsDel(opts, name) == DelOption(opts, name)

\* self.options.rm_safe(name): never raises.
RmSafe(opts, name) == [raised |-> FALSE, opts |-> Without(opts, name)]

\* os.getenv(name, default)
GetEnv(name, default) == IF name \in DOMAIN environ THEN environ[name] ELSE default

\* Plausible slip: the comparison without .lower().
IsTestsEnabledCaseSensitive == GetEnv(TOGGLE, ToggleDefault) \in EnablingValues

\* _is_tests_enabled
IsTestsEnabled == Lower(GetEnv(TOGGLE, ToggleDefault)) \in EnablingValues

-----------------------------------------------------------------------------
(* Initial state: the recipe object constructed, options given their values *)

Init ==
    /\ os \in OsValues
    /\ build_type \in BuildTypes
    /\ options \in [DOMAIN OptionValues -> BOOLEAN]
    /\ depOptions = Empty
    /\ requirements = requires
    /\ environ \in Environments
    /\ old_env = Empty
    /\ runEnv \in RunEnvs
    /\ cpp_info = [libs |-> <<>>, builddirs |-> <<>>, properties |-> Empty]
    /\ pc = "config_options"
    /\ running = "none"
    /\ log = <<>>
    /\ failedStep = "none"
    /\ branched = {}
    /\ environ0 = environ
    /\ shared0 = options["shared"]

-----------------------------------------------------------------------------
(* Option processing *)

\* Plausible slip: the platform name compared in the wrong case.
IsWindowsLowercase == os = "windows"

\* self.settings.os == "Windows"
IsWindows == os = "Windows"

\* Plausible slip: the dependencies always given the default.
ForwardedSharedDefault(opts) == default_options["shared"]

\* The value configure() assigns to the dependencies' shared option.
ForwardedShared(opts) == opts["shared"]

\* An exception leaves the method and ends the run.
Raise(step) ==
    /\ pc' = "failed"
    /\ failedStep' = step

config_options ==
    /\ pc = "config_options"
    /\ branched' = branched \cup {"os"}
    /\ LET r == IF IsWindows
                THEN DelOption(options, "fPIC")
                ELSE [raised |-> FALSE, opts |-> options]
       IN IF r.raised
          THEN /\ Raise("config_options()")
               /\ UNCHANGED options
          ELSE /\ options' = r.opts
               /\ pc' = "configure"
               /\ UNCHANGED failedStep
    /\ UNCHANGED <<os, build_type, depOptions, requirements, environ, old_env,
                   runEnv, cpp_info, running, log, environ0, shared0>>

configure ==
    /\ pc = "configure"
    /\ branched' = branched \cup {"shared"}
    /\ LET r == IF options["shared"]
                THEN RmSafe(options, "fPIC")
                ELSE [raised |-> FALSE, opts |-> options]
       IN IF r.raised
          THEN /\ Raise("configure()")
               /\ UNCHANGED <<options, depOptions>>
          ELSE /\ options' = r.opts
               /\ depOptions' =
                      Update(depOptions,
                             [p \in {"*"} |-> [shared |-> ForwardedShared(r.opts)]])
               /\ pc' = "build_63"
               /\ UNCHANGED failedStep
    /\ UNCHANGED <<os, build_type, requirements, environ, old_env, runEnv,
                   cpp_info, running, log, environ0, shared0>>

-----------------------------------------------------------------------------
(* External steps *)

\* Plausible slip: the documentation build left out of build().
NextStatementNoDoc(p) ==
    CASE p = "build_63" -> "build_64"
      [] p = "build_64" -> "build_66"
      [] p = "build_65" -> "build_66"
      [] p = "build_70" -> "package_75"
      [] p = "package_75" -> "package_76"
      [] p = "package_76" -> "package_info"

\* The statement that follows the call at p once it has returned; after
\* build() the package manager calls package(), then package_info().
NextStatement(p) ==
    CASE p = "build_63" -> "build_64"
      [] p = "build_64" -> "build_65"
      [] p = "build_65" -> "build_66"
      [] p = "build_70" -> "package_75"
      [] p = "package_75" -> "package_76"
      [] p = "package_76" -> "package_info"

\* Plausible slip: a failure caught and ignored, the method carrying on.
PropagateSwallowed(p) == NextStatement(p)

\* A failing step raises; build() and package() catch nothing.
Propagate(p) == "failed"

\* Plausible slip: the variables set in os.environ and left there.
RestoredEnvironNever(p) == environ

\* Leaving the with block puts os.environ back, on return and on raise alike.
RestoredEnviron(p) == IF p = "build_70" THEN old_env ELSE environ

\* Plausible slip: the tests tied to the build type as well.
RunTestsInRelease ==
    [value |-> IsTestsEnabled /\ build_type = "Release",
     reads |-> {"toggle", "build_type"}]

\* The condition of the if in build(), and what it reads.
RunTests == [value |-> IsTestsEnabled, reads |-> {"toggle"}]

\* The recipe starts an external step and waits for it.
Invoke(step) ==
    /\ running = "none"
    /\ running' = step
    /\ log' = Append(log, step)

\* cmake.configure()
build_configure ==
    /\ pc = "build_63"
    /\ Invoke("configure")
    /\ UNCHANGED <<os, build_type, options, depOptions, requirements, environ,
                   old_env, runEnv, cpp_info, pc, failedStep, branched,
                   environ0, shared0>>

\* cmake.build()
build_build ==
    /\ pc = "build_64"
    /\ Invoke("build")
    /\ UNCHANGED <<os, build_type, options, depOptions, requirements, environ,
                   old_env, runEnv, cpp_info, pc, failedStep, branched,
                   environ0, shared0>>

\* cmake.build(target="doc")
build_doc ==
    /\ pc = "build_65"
    /\ Invoke("doc")
    /\ UNCHANGED <<os, build_type, options, depOptions, requirements, environ,
                   old_env, runEnv, cpp_info, pc, failedStep, branched,
                   environ0, shared0>>

\* if self._is_tests_enabled(): ... with env.vars(self).apply(): cmake.test()
build_test ==
    /\ pc = "build_66"
    /\ running = "none"
    /\ branched' = branched \cup RunTests.reads
    /\ IF RunTests.value
       THEN LET env == Define(runEnv, CTEST, ON)
            IN /\ old_env' = environ
               /\ environ' = Update(environ, env)
               /\ Invoke("test")
               /\ pc' = "build_70"
       ELSE /\ pc' = "package_75"
            /\ UNCHANGED <<environ, old_env, running, log>>
    /\ UNCHANGED <<os, build_type, options, depOptions, requirements, runEnv,
                   cpp_info, failedStep, environ0, shared0>>

\* cmake.install()
package_install ==
    /\ pc = "package_75"
    /\ Invoke("install")
    /\ UNCHANGED <<os, build_type, options, depOptions, requirements, environ,
                   old_env, runEnv, cpp_info, pc, failedStep, branched,
                   environ0, shared0>>

\* cmake.build(target="install-doc")
package_install_doc ==
    /\ pc = "package_76"
    /\ Invoke("install-doc")
    /\ UNCHANGED <<os, build_type, options, depOptions, requirements, environ,
                   old_env, runEnv, cpp_info, pc, failedStep, branched,
                   environ0, shared0>>

\* The external step ends, with success or with an error.
step_returns ==
    /\ running # "none"
    /\ \E ok \in BOOLEAN :
          /\ pc' = IF ok THEN NextStatement(pc) ELSE Propagate(pc)
          /\ failedStep' = IF ok THEN failedStep ELSE running
    /\ running' = "none"
    /\ environ' = RestoredEnviron(pc)
    /\ UNCHANGED <<os, build_type, options, depOptions, requirements, old_env,
                   runEnv, cpp_info, log, branched, environ0, shared0>>

-----------------------------------------------------------------------------
(* Package information *)

\* Plausible slip: the wrapped library listed as well.
PackageLibsWithCore == <<"cosimc", "cosim">>

\* [ "cosimc" ]
PackageLibs == <<"cosimc">>

package_info ==
    /\ pc = "package_info"
    /\ cpp_info' =
          [libs |-> PackageLibs,
           builddirs |-> Append(cpp_info.builddirs, "."),
           properties |-> Update(cpp_info.properties,
                                 [k \in {"cmake_find_mode"} |-> "none"])]
    /\ pc' = "done"
    /\ UNCHANGED <<os, build_type, options, depOptions, requirements, environ,
                   old_env, runEnv, running, log, failedStep, branched,
                   environ0, shared0>>

-----------------------------------------------------------------------------

Next ==
    \/ config_options
    \/ configure
    \/ build_configure
    \/ build_build
    \/ build_doc
    \/ build_test
    \/ package_install
    \/ package_install_doc
    \/ step_returns
    \/ package_info

Spec == Init /\ [][Next]_vars

-----------------------------------------------------------------------------
(* Vocabulary of the properties *)

Steps(l) == { l[i] : i \in 1..Len(l) }

IsPrefix(a, b) == Len(a) <= Len(b) /\ SubSeq(b, 1, Len(a)) = a

StepsWithTests == <<"configure", "build", "doc", "test", "install">>
StepsWithoutTests == <<"configure", "build", "doc", "install">>

IsOrderedStep(s) == s # "install-doc"

\* The spellings of "true" in any mix of cases, and "1", written out.
EnablingSpellings ==
    { <<a, b, c, d>> : a \in {"t", "T"}, b \in {"r", "R"}, c \in {"u", "U"},
                       d \in {"e", "E"} } \cup { <<"1">> }

\* The toggle, as the recipe found it, holds an enabling value.
ToggleEnables == TOGGLE \in DOMAIN environ0 /\ environ0[TOGGLE] \in EnablingSpellings

\* config_options() and configure() have both returned.
OptionsProcessed ==
    /\ pc \notin {"config_options", "configure"}
    /\ failedStep \notin {"config_options()", "configure()"}

\* build() has evaluated the condition of its if.
ReachedTestBranch ==
    \/ pc \in {"build_70", "package_75", "package_76", "package_info", "done"}
    \/ failedStep \in {"test", "install", "install-doc"}

-----------------------------------------------------------------------------
(* C1: the external steps are invoked one at a time, each after the previous
   one has finished, in the order configure, build, doc, then test when it
   runs, then install: the steps invoked so far are always a prefix of that
   order, so test comes after doc and before install, and install after every
   step of build(). *)
C1_Order ==
    LET l == SelectSeq(log, IsOrderedStep)
    IN IsPrefix(l, StepsWithTests) \/ IsPrefix(l, StepsWithoutTests)

C1_StrictSequence ==
    /\ []C1_Order
    /\ [][log' # log => running = "none" /\ running' # "none"]_vars

C1_Witness ==
    /\ pc = "done"
    /\ SelectSeq(log, IsOrderedStep) = StepsWithTests

(* C2: the test runner is invoked only when the toggle, compared without
   regard to case, is "true" or "1"; and once build() has come to its test
   branch, the test runner has been invoked exactly when the toggle holds
   such a value. Unset, or any other value, never runs the tests. *)
C2_ToggleControlsTests ==
    /\ "test" \in Steps(log) => ToggleEnables
    /\ ReachedTestBranch => ("test" \in Steps(log) <=> ToggleEnables)

C2_Witness ==
    /\ "test" \in Steps(log)
    /\ environ0[TOGGLE] = <<"t", "R", "u", "E">>

(* C3, as claimed: after option processing fPIC is present exactly when the
   os is not Windows, and shared is present with a boolean value. *)
C3_Original ==
    OptionsProcessed =>
        /\ "shared" \in DOMAIN options
        /\ options["shared"] \in BOOLEAN
        /\ "fPIC" \in DOMAIN options <=> os # "Windows"

(* C3, amended: after option processing the options present are among
   {shared, fPIC}, shared is present with a boolean value, and fPIC is
   present (with a boolean value) exactly when the os is not Windows and
   shared is False. *)
C3_OptionSet ==
    OptionsProcessed =>
        /\ DOMAIN options \subseteq DOMAIN OptionValues
        /\ "shared" \in DOMAIN options
        /\ options["shared"] \in OptionValues["shared"]
        /\ "fPIC" \in DOMAIN options <=> (os # "Windows" /\ options["shared"] = FALSE)
        /\ "fPIC" \in DOMAIN options => options["fPIC"] \in OptionValues["fPIC"]

C3_Witness ==
    /\ OptionsProcessed
    /\ os = "Linux"
    /\ options["shared"] = TRUE
    /\ "fPIC" \notin DOMAIN options

(* C4: no recovery and no retry: once an external step has failed, the run
   has left the method with the error, the failed step is the last step
   invoked and was invoked once, and no step is invoked afterwards. *)
C4_Failed ==
    failedStep # "none" =>
        /\ pc = "failed"
        /\ running = "none"
        /\ Len(log) > 0
        /\ log[Len(log)] = failedStep
        /\ Cardinality({ i \in 1..Len(log) : log[i] = failedStep }) = 1

C4_NoRecovery ==
    /\ []C4_Failed
    /\ [][failedStep # "none" => log' = log /\ pc' = pc]_vars

C4_Witness ==
    /\ failedStep = "test"
    /\ pc = "failed"
    /\ log = <<"configure", "build", "doc", "test">>

(* C5, as claimed: the conditions the recipe branches on are the build type,
   the platform check for fPIC and the feature flag, each of them evaluated
   in a complete run. *)
C5_Original ==
    pc = "done" => branched = {"build_type", "os", "toggle"}

(* C5, amended: the recipe branches on the platform check for fPIC, on the
   shared option and on the test toggle, each evaluated in a complete run,
   and never on the build type; the steps of a complete run are the fixed
   sequence, with the test step present exactly when the toggle enables it. *)
C5_Branching ==
    /\ branched \subseteq {"os", "shared", "toggle"}
    /\ pc = "done" =>
          /\ branched = {"os", "shared", "toggle"}
          /\ log = (IF ToggleEnables THEN StepsWithTests ELSE StepsWithoutTests)
                      \o <<"install-doc">>

C5_Witness ==
    /\ pc = "done"
    /\ build_type = "Debug"
    /\ branched = {"os", "shared", "toggle"}
    /\ log = StepsWithoutTests \o <<"install-doc">>

(* C6: after package_info() the libraries exposed to consumers are exactly
   the one library cosimc. *)
C6_SingleLibrary ==
    pc = "done" => Len(cpp_info.libs) = 1 /\ cpp_info.libs[1] = "cosimc"

C6_Witness ==
    /\ pc = "done"
    /\ os = "Windows"
    /\ shared0 = FALSE
    /\ cpp_info.libs = <<"cosimc">>

(* C7: the requirements are one entry, libcosim at the single version
   0.10.3, not a range, and no operation of the recipe changes them. *)
C7_Pinned ==
    /\ Len(requirements) = 1
    /\ RefName(requirements[1]) = <<"l", "i", "b", "c", "o", "s", "i", "m">>
    /\ RefVersion(requirements[1]) = <<"0", ".", "1", "0", ".", "3">>
    /\ ~IsVersionRange(RefVersion(requirements[1]))
    /\ "[" \notin Steps(requirements[1])

C7_PinnedRequirement ==
    /\ []C7_Pinned
    /\ [][requirements' = requirements]_vars

C7_Witness ==
    /\ pc = "done"
    /\ Len(requirements) = 1
    /\ RefVersion(requirements[1]) = <<"0", ".", "1", "0", ".", "3">>

(* C8: config_options() followed by configure() never raises, whatever the
   os and the shared option; afterwards fPIC is defined exactly when the os
   is not Windows and shared was given as False, and with the default
   shared=True it is absent on every platform. *)
C8_OptionProcessingSafe ==
    /\ failedStep \notin {"config_options()", "configure()"}
    /\ OptionsProcessed =>
          /\ "fPIC" \in DOMAIN options <=> (os # "Windows" /\ ~shared0)
          /\ shared0 = default_options["shared"] => "fPIC" \notin DOMAIN options

C8_Witness ==
    /\ pc = "build_63"
    /\ os = "Windows"
    /\ shared0 = TRUE
    /\ "fPIC" \notin DOMAIN options

(* C9: after configure() the shared option of all dependencies (pattern "*")
   is this package's shared value, and that value is the one the package
   started with. *)
C9_SharedForwarded ==
    OptionsProcessed =>
        /\ "*" \in DOMAIN depOptions
        /\ depOptions["*"]["shared"] = options["shared"]
        /\ options["shared"] = shared0

C9_Witness ==
    /\ OptionsProcessed
    /\ shared0 = FALSE
    /\ depOptions["*"]["shared"] = FALSE

(* C10: while the test runner executes, CTEST_OUTPUT_ON_FAILURE is ON and the
   variables the run environment does not set keep their values; at every
   other moment, before the test step, after it whether it passed or failed,
   and throughout when tests are disabled, the process environment is what
   it was when the recipe started. *)
C10_EnvironmentScoped ==
    /\ running = "test" =>
          /\ CTEST \in DOMAIN environ
          /\ environ[CTEST] = ON
          /\ \A n \in DOMAIN environ0 \ (DOMAIN runEnv \cup {CTEST}) :
                n \in DOMAIN environ /\ environ[n] = environ0[n]
    /\ running # "test" => environ = environ0

C10_Witness ==
    /\ failedStep = "test"
    /\ CTEST \in DOMAIN environ0
    /\ environ0[CTEST] = OFF
    /\ RUNPATH \in DOMAIN runEnv
    /\ environ = environ0

====
